---------------------------- MODULE Spec2Model ----------------------------
(***************************************************************************)
(* A model of sagemcom_api.Sagemcom_Client: the session state of one       *)
(* client instance, the generic request path (__api_request_async) and the *)
(* public coroutines built on it.  A coroutine runs without interruption   *)
(* between two awaits, so every action below is one such segment.          *)
(***************************************************************************)
EXTENDS Integers, Sequences, FiniteSets, TLC

\* ------------------------------------------------------------------ bounds
\* calls of the generic request path made over the client's lifetime
MaxCalls == 3
\* raw host records in one parse_devices call
MaxHosts == 2
\* the coroutines (asyncio tasks) that use the one client instance
Tasks == {"t1", "t2"}

\* ------------------------------------------------------- Python/JSON values
\* A value is a record [t, v]: its type tag and its payload.
None == [t |-> "null", v |-> 0]
PyInt(n) == [t |-> "int", v |-> n]
PyStr(s) == [t |-> "str", v |-> s]
PyBool(b) == [t |-> "bool", v |-> b]
PyList(s) == [t |-> "list", v |-> s]
PyDict(f) == [t |-> "dict", v |-> f]
EmptyDict == <<>>

\* The outcome of evaluating an expression: a value, or a raised exception.
Ok(x) == [raised |-> "no", val |-> x]
Raise(e) == [raised |-> e, val |-> None]

\* x[k] for a string key k
GetKey(x, k) ==
    CASE x.t = "dict" -> IF k \in DOMAIN x.v THEN Ok(x.v[k]) ELSE Raise("KeyError")
      [] OTHER -> Raise("TypeError")

\* x[i] for an integer index i >= 0
GetIdx(x, i) ==
    CASE x.t = "list" -> IF i + 1 \in DOMAIN x.v THEN Ok(x.v[i + 1]) ELSE Raise("IndexError")
      [] x.t = "dict" -> Raise("KeyError")
      [] x.t = "str" -> IF i + 1 <= Len(x.v) THEN Ok(PyStr(SubSeq(x.v, i + 1, i + 1)))
                        ELSE Raise("IndexError")
      [] OTHER -> Raise("TypeError")

\* str(x) of the values the client formats
Str(x) ==
    CASE x.t = "int" -> ToString(x.v)
      [] x.t = "str" -> x.v
      [] x.t = "bool" -> IF x.v THEN "True" ELSE "False"
      [] OTHER -> "None"

\* ----------------------------------------------------------------- digests
AuthenticationMethods == {"MD5", "SHA512"}
\* what a caller may pass as authentication_method: a member of the Enum, or
\* anything else
MethodArgs == AuthenticationMethods \cup {"OTHER"}

\* hashlib digests are modelled as free constructors: the hex digest of a
\* string is the string wrapped in the digest's name, so two digests are equal
\* exactly when algorithm and input are.
generate_hash(method, value) ==
    IF method = "MD5" THEN "md5(" \o value \o ")"
    ELSE IF method = "SHA512" THEN "sha512(" \o value \o ")"
    ELSE value


\* ------------------------------------------------------- construction inputs
Hosts == {"192.168.1.1"}
Usernames == {"admin"}
Passwords == {"secret"}

\* --------------------------------------------------- what the server may send
NO_ERR == "XMO_REQUEST_NO_ERR"
\* reply.error.description values: the success sentinel and two error codes
Descriptions == {NO_ERR, "XMO_AUTHENTICATION_ERR", "XMO_UNKNOWN_PATH_ERR"}

Statuses == {200, 400, 401, 500}

IdParts == {EmptyDict} \cup {"id" :> x : x \in {None, PyInt(5), PyInt(6)}}
NonceParts ==
    {EmptyDict} \cup {"nonce" :> x : x \in {None, PyStr("abc"), PyStr("xyz"), PyInt(7)}}
ParametersValues == {None} \cup {PyDict(i @@ n) : i \in IdParts, n \in NonceParts}
CallbackValues ==
    {PyDict(EmptyDict)} \cup {PyDict("parameters" :> p) : p \in ParametersValues}
CallbackLists == {PyList(<<>>)} \cup {PyList(<<c>>) : c \in CallbackValues}
ActionValues == {PyDict(EmptyDict)} \cup {PyDict("callbacks" :> c) : c \in CallbackLists}
ActionLists == {PyList(<<>>)} \cup {PyList(<<a>>) : a \in ActionValues}
ActionsParts == {EmptyDict} \cup {"actions" :> a : a \in ActionLists}
ErrorParts ==
    {EmptyDict} \cup {"error" :> PyDict(EmptyDict)}
        \cup {"error" :> PyDict("description" :> PyStr(d)) : d \in Descriptions}
ReplyValues == {PyDict(e @@ a) : e \in ErrorParts, a \in ActionsParts}
\* every JSON document of the expected shape with any part of it missing, and
\* a document that is not an object at all
Documents ==
    {PyDict(EmptyDict), PyList(<<>>)} \cup {PyDict("reply" :> r) : r \in ReplyValues}

\* A response body is JSON (its document) or plain text that is not JSON.
JsonBody(d) == [kind |-> "json", doc |-> d, text |-> ""]
TextBody(s) == [kind |-> "text", doc |-> None, text |-> s]
TextBodies == {TextBody("Bad Request"), TextBody("Internal Server Error")}
JsonBodies == {JsonBody(d) : d \in Documents}

\* A well-formed reply with the given error description and parameters.
Reply(description, parameters) ==
    JsonBody(PyDict("reply" :> PyDict(
        ("error" :> PyDict("description" :> PyStr(description)))
        @@ ("actions" :> PyList(<<PyDict("callbacks" :>
                PyList(<<PyDict("parameters" :> parameters)>>))>>)))))
LoginParameters(id, nonce) == PyDict(("id" :> id) @@ ("nonce" :> nonce))

\* ------------------------------------------------- the client's pure helpers
\* a request id that is not advanced
generate_request_id_stays(request_id) == request_id

\* a request id that advances by two
generate_request_id_skips(request_id) == request_id + 2

\* __generate_request_id: self._request_id += 1
generate_request_id(request_id) == request_id + 1

\* a range that includes its upper end, as random.randint does
randrange_inclusive(a, b) == a..b

\* random.randrange(a, b): the integers a <= r < b
randrange(a, b) == a..(b - 1)

\* __generate_nonce: math.floor(r * 500000) of an integer r
generate_nonce(r) == r * 500000

\* __get_credential_hash: str + str + str, a TypeError when the stored server
\* nonce is not a string
get_credential_hash(method, user, nonce, pwhash) ==
    IF nonce.t = "str"
    THEN Ok(generate_hash(method, user \o ":" \o nonce.v \o ":" \o pwhash))
    ELSE Raise("TypeError")

\* an auth key built from the request id as it was before the increment
generate_auth_key_stale(method, user, nonce, pwhash, rid, cnonce) ==
    LET credential_hash == get_credential_hash(method, user, nonce, pwhash)
    IN  IF credential_hash.raised # "no" THEN credential_hash
        ELSE Ok(PyStr(generate_hash(method,
                 credential_hash.val \o ":" \o ToString(rid - 1) \o ":" \o Str(cnonce)
                     \o ":JSON:/cgi/json-req")))

\* __generate_auth_key: the new value of self._auth_key
generate_auth_key(method, user, nonce, pwhash, rid, cnonce) ==
    LET credential_hash == get_credential_hash(method, user, nonce, pwhash)
    IN  IF credential_hash.raised # "no" THEN credential_hash
        ELSE Ok(PyStr(generate_hash(method,
                 credential_hash.val \o ":" \o ToString(rid) \o ":" \o Str(cnonce)
                     \o ":JSON:/cgi/json-req")))

\* e[k] and e[i] of an expression that may already have raised
ThenKey(r, k) == IF r.raised = "no" THEN GetKey(r.val, k) ELSE r
ThenIdx(r, i) == IF r.raised = "no" THEN GetIdx(r.val, i) ELSE r
\* try: ... except KeyError: value = None
ExceptKeyError(r) == IF r.raised = "KeyError" THEN Ok(None) ELSE r

\* __get_response_error
get_response_error(response) ==
    ExceptKeyError(ThenKey(GetKey(response, "reply"), "error"))

\* __get_response_value
get_response_value(response, index) ==
    ExceptKeyError(
        ThenKey(ThenIdx(ThenKey(ThenIdx(ThenKey(GetKey(response, "reply"),
            "actions"), index), "callbacks"), index), "parameters"))

\* response.json(): the document, or a decoding error for a body that is not JSON
ResponseJson(body) ==
    IF body.kind = "json" THEN Ok(body.doc) ELSE Raise("JSONDecodeError")
\* response.text()
ResponseText(body) == PyStr(body.text)

\* The rest of __api_request_async once status and body are there (lines
\* 136-151): what it returns or raises, and what it prints.  is400 is the
\* outcome of `response.status is 400`, an identity test between two int
\* objects that the interpreter may or may not share.
api_request_result(status, body, is400) ==
    LET text == ResponseText(body)
        out400 == IF is400 THEN <<text>> ELSE <<>>
        outNot200 == IF status # 200 THEN <<text>> ELSE <<>>
    IN  IF status # 200
        THEN [ret |-> Ok(text), out |-> out400 \o outNot200]
        ELSE LET result == ResponseJson(body)
                 error == IF result.raised = "no" THEN get_response_error(result.val)
                          ELSE result
                 description == ThenKey(error, "description")
             IN  IF description.raised # "no"
                 THEN [ret |-> Raise(description.raised), out |-> out400]
                 ELSE [ret |-> result,
                       out |-> out400 \o (IF description.val # PyStr(NO_ERR)
                                          THEN <<error.val>> ELSE <<>>)]

\* a login that stores the id before it has looked at the nonce
login_result_partial(ret, sid, nonce) ==
    LET data == IF ret.raised = "no" THEN get_response_value(ret.val, 0) ELSE ret
        id == ThenKey(data, "id")
        unchanged(r) == [outcome |-> r, session_id |-> sid, server_nonce |-> nonce]
        half(r) == [outcome |-> r, session_id |-> id.val, server_nonce |-> nonce]
    IN  IF id.raised # "no" THEN unchanged(Raise(id.raised))
        ELSE IF id.val = None THEN unchanged(Ok(PyBool(FALSE)))
        ELSE LET n == GetKey(data.val, "nonce")
             IN  IF n.raised # "no" THEN half(Raise(n.raised))
                 ELSE IF n.val = None THEN half(Ok(PyBool(FALSE)))
                 ELSE [outcome |-> Ok(PyBool(TRUE)),
                       session_id |-> id.val, server_nonce |-> n.val]

\* a login that stores the nonce before it has looked at the id
login_result_nonce_first(ret, sid, nonce) ==
    LET data == IF ret.raised = "no" THEN get_response_value(ret.val, 0) ELSE ret
        n == ThenKey(data, "nonce")
        unchanged(r) == [outcome |-> r, session_id |-> sid, server_nonce |-> nonce]
        half(r) == [outcome |-> r, session_id |-> sid, server_nonce |-> n.val]
    IN  IF n.raised # "no" THEN unchanged(Raise(n.raised))
        ELSE IF n.val = None THEN unchanged(Ok(PyBool(FALSE)))
        ELSE LET id == GetKey(data.val, "id")
             IN  IF id.raised # "no" THEN half(Raise(id.raised))
                 ELSE IF id.val = None THEN half(Ok(PyBool(FALSE)))
                 ELSE [outcome |-> Ok(PyBool(TRUE)),
                       session_id |-> id.val, server_nonce |-> n.val]

\* login() after its request (lines 186-193): the outcome, and the session
\* fields afterwards
login_result(ret, sid, nonce) ==
    LET data == IF ret.raised = "no" THEN get_response_value(ret.val, 0) ELSE ret
        id == ThenKey(data, "id")
        unchanged(r) == [outcome |-> r, session_id |-> sid, server_nonce |-> nonce]
    IN  IF id.raised # "no" THEN unchanged(Raise(id.raised))
        ELSE IF id.val = None THEN unchanged(Ok(PyBool(FALSE)))
        ELSE LET n == GetKey(data.val, "nonce")
             IN  IF n.raised # "no" THEN unchanged(Raise(n.raised))
                 ELSE IF n.val = None THEN unchanged(Ok(PyBool(FALSE)))
                 ELSE [outcome |-> Ok(PyBool(TRUE)),
                       session_id |-> id.val, server_nonce |-> n.val]

\* a data operation that drops the session when it got no data
data_result_resets(ret, sid, nonce) ==
    LET data == IF ret.raised = "no" THEN get_response_value(ret.val, 0) ELSE ret
    IN  IF data.raised = "no" /\ data.val # None
        THEN [outcome |-> data, session_id |-> sid, server_nonce |-> nonce]
        ELSE [outcome |-> data, session_id |-> PyInt(0), server_nonce |-> PyStr("")]

\* get_device_info / get_port_mappings / get_hosts / reboot after their
\* request: return data
data_result(ret, sid, nonce) ==
    LET data == IF ret.raised = "no" THEN get_response_value(ret.val, 0) ELSE ret
    IN  [outcome |-> data, session_id |-> sid, server_nonce |-> nonce]

DataOps == {"get_device_info", "get_port_mappings", "get_hosts", "reboot"}
Ops == {"login"} \cup DataOps

\* the action object each public operation builds
ActionOf(o, user) ==
    CASE o = "login" -> [method |-> "logIn", xpath |-> "", user |-> user]
      [] o = "get_device_info" -> [method |-> "getValue", xpath |-> "Device/DeviceInfo", user |-> ""]
      [] o = "get_port_mappings" -> [method |-> "getValue", xpath |-> "Device/NAT/PortMappings", user |-> ""]
      [] o = "get_hosts" -> [method |-> "getValue", xpath |-> "Device/Hosts/Hosts", user |-> ""]
      [] o = "reboot" -> [method |-> "reboot", xpath |-> "Device", user |-> ""]
PriorityOf(o) == o = "login"

\* what the public operation o does with the generic request's outcome
op_result(o, ret, sid, nonce) ==
    IF o = "login" THEN login_result(ret, sid, nonce) ELSE data_result(ret, sid, nonce)

\* --------------------------------------------------- host record normalization
\* bool(x) of the values a host record holds
Truthy(x) ==
    CASE x.t = "bool" -> x.v
      [] x.t = "str" -> x.v # ""
      [] x.t = "int" -> x.v # 0
      [] x.t = "list" -> x.v # <<>>
      [] x.t = "dict" -> DOMAIN x.v # {}
      [] OTHER -> FALSE
\* an `or` that prefers its second operand
PyOr_prefers_second(a, b) == IF Truthy(b) THEN b ELSE a

\* a or b
PyOr(a, b) == IF Truthy(a) THEN a ELSE b

\* a character left in the case it came in
UpperChar_unchanged(c) == c

\* str.upper() of one ASCII character, and of a string
UpperChar(c) ==
    CASE c = "a" -> "A" [] c = "b" -> "B" [] c = "c" -> "C"
      [] c = "d" -> "D" [] c = "e" -> "E" [] c = "f" -> "F"
      [] OTHER -> c
RECURSIVE upper(_)
upper(s) ==
    IF s = "" THEN "" ELSE UpperChar(SubSeq(s, 1, 1)) \o upper(SubSeq(s, 2, Len(s)))

\* the keys parse_devices reads from a raw host record
HostKeys ==
    {"Active", "PhysAddress", "IPAddress", "IPv4Addresses", "IPv6Addresses",
     "AddressSource", "UserHostName", "HostName", "InterfaceType",
     "UserFriendlyName", "DetectedDeviceType", "UserDeviceType"}

\* Device(...) of lines 257-269 for one raw host record
MakeDevice(device) ==
    IF device.t # "dict" THEN Raise("TypeError")
    ELSE IF ~(HostKeys \subseteq DOMAIN device.v) THEN Raise("KeyError")
    ELSE IF device.v["PhysAddress"].t # "str" THEN Raise("AttributeError")
    ELSE Ok([mac_address |-> PyStr(upper(device.v["PhysAddress"].v)),
             ip_address |-> device.v["IPAddress"],
             ipv4_addresses |-> device.v["IPv4Addresses"],
             ipv6_addresses |-> device.v["IPv6Addresses"],
             address_source |-> device.v["AddressSource"],
             name |-> PyOr(device.v["UserHostName"], device.v["HostName"]),
             interface |-> device.v["InterfaceType"],
             active |-> device.v["Active"],
             user_friendly_name |-> device.v["UserFriendlyName"],
             detected_device_type |-> device.v["DetectedDeviceType"],
             user_device_type |-> device.v["UserDeviceType"]])

\* a test that lets every record through
IsIncluded_always(device, only_active) == Ok(PyBool(TRUE))

\* the test of line 255: not only_active or device['Active']
IsIncluded(device, only_active) ==
    IF ~only_active THEN Ok(PyBool(TRUE))
    ELSE LET active == GetKey(device, "Active")
         IN  IF active.raised # "no" THEN active ELSE Ok(PyBool(Truthy(active.val)))

\* the loop of lines 254-271 over the records still to visit, devices being
\* the list built so far
RECURSIVE parse_loop(_, _, _)
parse_loop(rest, only_active, devices) ==
    IF rest = <<>> THEN Ok(devices)
    ELSE LET included == IsIncluded(Head(rest), only_active)
         IN  IF included.raised # "no" THEN Raise(included.raised)
             ELSE IF ~included.val.v THEN parse_loop(Tail(rest), only_active, devices)
             ELSE LET device == MakeDevice(Head(rest))
                  IN  IF device.raised # "no" THEN Raise(device.raised)
                      ELSE parse_loop(Tail(rest), only_active,
                                      Append(devices, device.val))

\* parse_devices(data, only_active): the list of Devices, or what it raises
parse_devices(data, only_active) ==
    IF data.t # "list" THEN Raise("TypeError")
    ELSE parse_loop(data.v, only_active, <<>>)

\* raw host records as get_hosts delivers them
PhysAddresses == {"aa:b1", "AA:B1", "aA:f0"}
IPAddresses == {"192.168.1.10", "192.168.1.11"}
UserHostNames == {PyStr(""), PyStr("phone"), None}
HostNames == {PyStr("laptop")}
RawHost(active, phys, ip, user_host_name, host_name) ==
    PyDict([Active |-> PyBool(active), PhysAddress |-> PyStr(phys),
            IPAddress |-> PyStr(ip), IPv4Addresses |-> PyList(<<PyStr(ip)>>),
            IPv6Addresses |-> PyList(<<>>), AddressSource |-> PyStr("DHCP"),
            UserHostName |-> user_host_name, HostName |-> host_name,
            InterfaceType |-> PyStr("Ethernet"), UserFriendlyName |-> PyStr(""),
            DetectedDeviceType |-> PyStr(""), UserDeviceType |-> PyStr("")])
RawHosts ==
    {RawHost(a, p, i, u, h) : a \in BOOLEAN, p \in PhysAddresses, i \in IPAddresses,
                              u \in UserHostNames, h \in HostNames}
HostLists == {PyList(l) : l \in UNION {[1..n -> RawHosts] : n \in 0..MaxHosts}}

\* -------------------------------------------------------------------- state
VARIABLES
    host, username, authentication_method, password_hash,  \* set by __init__
    current_nonce, server_nonce, session_id, request_id,   \* session state
    auth_key,       \* self._auth_key: no such attribute before the first request
    pc,             \* per task: "idle", "post" (awaiting session.post) or
                    \* "body" (awaiting response.text() / response.json())
    op,             \* per task: the public operation it runs or ran last
    wire,           \* per task: the envelopes its current call has posted
    response,       \* per task: the response its current call has received
    result,         \* per task: what its call returned or raised to the caller
    printed,        \* per task: what its call wrote with print()
    calls,          \* calls of __api_request_async so far
    posts,          \* HTTP requests issued so far
    parsed,         \* the latest parse_devices call: its arguments and outcome
    twin            \* a second instance built from the same arguments

config == <<host, username, authentication_method, password_hash>>
session == <<current_nonce, server_nonce, session_id, request_id, auth_key>>
frames == <<pc, op, wire, response, result, printed>>
others == <<parsed, twin>>
vars == <<config, session, frames, calls, posts, others>>

NoResponse == [status |-> 0, body |-> TextBody("")]
Pending == [raised |-> "pending", val |-> None]
NoParse == [data |-> PyList(<<>>), only_active |-> TRUE, ret |-> Pending]
\* the session state of a client just constructed, with nothing sent
NewClient(pwhash) ==
    [password_hash |-> pwhash,
     current_nonce |-> None, server_nonce |-> PyStr(""), session_id |-> PyInt(0),
     request_id |-> -1, auth_key |-> None,
     pc |-> "idle", wire |-> <<>>, result |-> Pending]

\* Sagemcom_Client(host, username, password, authentication_method)
Init ==
    /\ host \in Hosts
    /\ username \in Usernames
    /\ authentication_method \in MethodArgs
    /\ \E password \in Passwords :
           /\ password_hash = generate_hash(authentication_method, password)
           /\ twin = NewClient(generate_hash(authentication_method, password))
    /\ current_nonce = None
    /\ server_nonce = PyStr("")
    /\ session_id = PyInt(0)
    /\ request_id = -1
    /\ auth_key = None
    /\ pc = [t \in Tasks |-> "idle"]
    /\ op = [t \in Tasks |-> "login"]
    /\ wire = [t \in Tasks |-> <<>>]
    /\ response = [t \in Tasks |-> NoResponse]
    /\ result = [t \in Tasks |-> Pending]
    /\ printed = [t \in Tasks |-> <<>>]
    /\ calls = 0
    /\ posts = 0
    /\ parsed = NoParse

\* an envelope that always names session "0"
Payload_no_session(rid, sid, priority, actions, cnonce, key) ==
    [id |-> rid, session_id |-> "0", priority |-> priority,
     actions |-> actions, cnonce |-> cnonce.v, auth_key |-> key.v]

\* the request envelope of lines 121-130
Payload(rid, sid, priority, actions, cnonce, key) ==
    [id |-> rid, session_id |-> Str(sid), priority |-> priority,
     actions |-> actions, cnonce |-> cnonce.v, auth_key |-> key.v]

\* a call that hashes the stored password hash once more
Call_rehashes(t, o) ==
    /\ pc[t] = "idle"
    /\ calls < MaxCalls
    /\ calls' = calls + 1
    /\ op' = [op EXCEPT ![t] = o]
    /\ response' = [response EXCEPT ![t] = NoResponse]
    /\ printed' = [printed EXCEPT ![t] = <<>>]
    /\ request_id' = generate_request_id(request_id)
    /\ \E r \in randrange(0, 1) : current_nonce' = PyInt(generate_nonce(r))
    /\ LET key == generate_auth_key(authentication_method, username, server_nonce,
                                    password_hash, request_id', current_nonce')
       IN  IF key.raised = "no"
           THEN /\ auth_key' = key.val
                /\ wire' = [wire EXCEPT ![t] =
                                <<Payload(request_id', session_id, PriorityOf(o),
                                          <<ActionOf(o, username)>>, current_nonce',
                                          auth_key')>>]
                /\ posts' = posts + 1
                /\ pc' = [pc EXCEPT ![t] = "post"]
                /\ result' = [result EXCEPT ![t] = Pending]
           ELSE /\ auth_key' = auth_key
                /\ wire' = [wire EXCEPT ![t] = <<>>]
                /\ posts' = posts
                /\ pc' = pc
                /\ result' = [result EXCEPT ![t] = Raise(key.raised)]
    /\ password_hash' = generate_hash(authentication_method, password_hash)
    /\ UNCHANGED <<host, username, authentication_method, server_nonce, session_id>>

\* Task t calls the public operation o, which runs into __api_request_async
\* up to its first await (lines 115-133): new request id, nonce and auth key,
\* then the envelope is built and posted.  A TypeError in the auth key's string
\* concatenation ends the call before anything is sent.
Call(t, o) ==
    /\ pc[t] = "idle"
    /\ calls < MaxCalls
    /\ calls' = calls + 1
    /\ op' = [op EXCEPT ![t] = o]
    /\ response' = [response EXCEPT ![t] = NoResponse]
    /\ printed' = [printed EXCEPT ![t] = <<>>]
    /\ request_id' = generate_request_id(request_id)
    /\ \E r \in randrange(0, 1) : current_nonce' = PyInt(generate_nonce(r))
    /\ LET key == generate_auth_key(authentication_method, username, server_nonce,
                                    password_hash, request_id', current_nonce')
       IN  IF key.raised = "no"
           THEN /\ auth_key' = key.val
                /\ wire' = [wire EXCEPT ![t] =
                                <<Payload(request_id', session_id, PriorityOf(o),
                                          <<ActionOf(o, username)>>, current_nonce',
                                          auth_key')>>]
                /\ posts' = posts + 1
                /\ pc' = [pc EXCEPT ![t] = "post"]
                /\ result' = [result EXCEPT ![t] = Pending]
           ELSE /\ auth_key' = auth_key
                /\ wire' = [wire EXCEPT ![t] = <<>>]
                /\ posts' = posts
                /\ pc' = pc
                /\ result' = [result EXCEPT ![t] = Raise(key.raised)]
    /\ UNCHANGED <<config, server_nonce, session_id>>

\* session.post(...) completes for task t: the response's status line and
\* headers are there (line 133)
RecvHeaders(t, status) ==
    /\ pc[t] = "post"
    /\ response' = [response EXCEPT ![t] = [status |-> status, body |-> TextBody("")]]
    /\ pc' = [pc EXCEPT ![t] = "body"]
    /\ UNCHANGED <<config, session, op, wire, result, printed, calls, posts>>

\* The body arrives for task t: the rest of __api_request_async (lines
\* 136-151) and of the public operation run to the end.
RecvBody(t, body, is400) ==
    /\ pc[t] = "body"
    /\ is400 => response[t].status = 400
    /\ LET r == api_request_result(response[t].status, body, is400)
           fin == op_result(op[t], r.ret, session_id, server_nonce)
       IN  /\ response' = [response EXCEPT ![t].body = body]
           /\ printed' = [printed EXCEPT ![t] = r.out]
           /\ result' = [result EXCEPT ![t] = fin.outcome]
           /\ session_id' = fin.session_id
           /\ server_nonce' = fin.server_nonce
    /\ pc' = [pc EXCEPT ![t] = "idle"]
    /\ UNCHANGED <<config, current_nonce, request_id, auth_key, op, wire, calls, posts>>

\* the bodies a server may send with a status
BodiesFor(status) == IF status = 200 THEN JsonBodies \cup TextBodies ELSE TextBodies

\* ------------------------------------------------------------ specifications
\* One caller that awaits each operation before it starts the next.
MainTask == CHOOSE t \in Tasks : TRUE

Next ==
    \/ \E o \in Ops : Call(MainTask, o) /\ UNCHANGED others
    \/ \E status \in Statuses : RecvHeaders(MainTask, status) /\ UNCHANGED others
    \/ \E body \in BodiesFor(response[MainTask].status), is400 \in BOOLEAN :
           RecvBody(MainTask, body, is400) /\ UNCHANGED others

Spec == Init /\ [][Next]_vars

\* Several coroutines on one event loop, with no serialization by the caller:
\* any task may start or resume whenever it is able to.  The server's answers
\* are the well-formed ones, one malformed document and one text body.
ConcOps == {"login", "get_hosts"}
ConcStatuses == {200, 500}
ConcBodies ==
    {Reply(NO_ERR, LoginParameters(PyInt(5), PyStr("abc"))),
     Reply(NO_ERR, LoginParameters(PyInt(6), PyStr("xyz"))),
     Reply(NO_ERR, LoginParameters(None, PyStr("abc"))),
     Reply("XMO_AUTHENTICATION_ERR", None),
     JsonBody(PyDict(EmptyDict)),
     TextBody("Internal Server Error")}
ConcBodiesFor(status) == BodiesFor(status) \cap ConcBodies

ConcNext ==
    \/ \E t \in Tasks, o \in ConcOps : Call(t, o) /\ UNCHANGED others
    \/ \E t \in Tasks, status \in ConcStatuses : RecvHeaders(t, status) /\ UNCHANGED others
    \/ \E t \in Tasks : \E body \in ConcBodiesFor(response[t].status) :
           RecvBody(t, body, FALSE) /\ UNCHANGED others

ConcSpec == Init /\ [][ConcNext]_vars

\* The second instance makes the call the first one makes in the same step:
\* lines 115-133 on its own fields, with its own draw of the random number.
TwinCall(o) ==
    IF twin.pc # "idle" THEN twin' = twin
    ELSE \E r \in randrange(0, 1) :
        LET rid == generate_request_id(twin.request_id)
            cnonce == PyInt(generate_nonce(r))
            key == generate_auth_key(authentication_method, username,
                                     twin.server_nonce, twin.password_hash, rid, cnonce)
        IN  twin' =
              IF key.raised = "no"
              THEN [twin EXCEPT !.request_id = rid, !.current_nonce = cnonce,
                                !.auth_key = key.val,
                                !.wire = <<Payload(rid, twin.session_id, PriorityOf(o),
                                                   <<ActionOf(o, username)>>, cnonce,
                                                   key.val)>>,
                                !.pc = "post", !.result = Pending]
              ELSE [twin EXCEPT !.request_id = rid, !.current_nonce = cnonce,
                                !.wire = <<>>, !.result = Raise(key.raised)]

\* the second instance's session.post(...) completes
TwinRecvHeaders ==
    twin' = IF twin.pc = "post" THEN [twin EXCEPT !.pc = "body"] ELSE twin

\* The second instance is given the same status and body: lines 136-151 and
\* the rest of operation o on its own fields.
TwinRecvBody(o, status, body, is400) ==
    IF twin.pc # "body" THEN twin' = twin
    ELSE LET r == api_request_result(status, body, is400)
             fin == op_result(o, r.ret, twin.session_id, twin.server_nonce)
         IN  twin' = [twin EXCEPT !.result = fin.outcome,
                                  !.session_id = fin.session_id,
                                  !.server_nonce = fin.server_nonce,
                                  !.pc = "idle"]

\* Two instances built from the same arguments, driven through the same
\* operations and given the same responses.
TwinNext ==
    \/ \E o \in Ops : Call(MainTask, o) /\ TwinCall(o) /\ UNCHANGED parsed
    \/ \E status \in Statuses :
           RecvHeaders(MainTask, status) /\ TwinRecvHeaders /\ UNCHANGED parsed
    \/ \E body \in BodiesFor(response[MainTask].status), is400 \in BOOLEAN :
           /\ RecvBody(MainTask, body, is400)
           /\ \E twin400 \in {b \in BOOLEAN : b => response[MainTask].status = 400} :
                  TwinRecvBody(op[MainTask], response[MainTask].status, body, twin400)
           /\ UNCHANGED parsed

TwinSpec == Init /\ [][TwinNext]_vars

\* parse_devices(data, only_active) is called: it reads its arguments only
ParseDevices(data, only_active) ==
    /\ parsed' = [data |-> data, only_active |-> only_active,
                  ret |-> parse_devices(data, only_active)]
    /\ UNCHANGED <<config, session, frames, calls, posts, twin>>

\* One caller that uses the whole public interface: login, the data operations
\* and parse_devices on the host list it got, each awaited before the next.
ClientHostLists ==
    {PyList(<<RawHost(FALSE, "aa:b1", "192.168.1.10", PyStr(""), PyStr("laptop")),
              RawHost(TRUE, "aA:f0", "192.168.1.11", PyStr("phone"), PyStr("laptop"))>>)}

ClientNext ==
    \/ \E o \in Ops : Call(MainTask, o) /\ UNCHANGED others
    \/ \E status \in Statuses : RecvHeaders(MainTask, status) /\ UNCHANGED others
    \/ \E body \in BodiesFor(response[MainTask].status), is400 \in BOOLEAN :
           RecvBody(MainTask, body, is400) /\ UNCHANGED others
    \/ /\ pc[MainTask] = "idle"
       /\ \E data \in ClientHostLists, only_active \in BOOLEAN :
              ParseDevices(data, only_active)

ClientSpec == Init /\ [][ClientNext]_vars

\* parse_devices alone, applied once to any list of raw host records
ParseNext ==
    /\ parsed = NoParse
    /\ \E data \in HostLists, only_active \in BOOLEAN : ParseDevices(data, only_active)

ParseSpec == Init /\ [][ParseNext]_vars

\* ------------------------------------------------------ reading the states
\* task t's call has just posted its envelope in this step
Sends(t) == pc[t] = "idle" /\ pc'[t] = "post"
\* task t's call is over and had a response
Answered(t) == pc[t] = "idle" /\ response[t].status # 0
\* task t's call is in flight: posted, not yet over
InFlight(t) == pc[t] # "idle"

\* d[k] where the document has it, None where it has not
Field(d, k) == IF d.t = "dict" /\ k \in DOMAIN d.v THEN d.v[k] ELSE None
First(d) == IF d.t = "list" /\ Len(d.v) >= 1 THEN d.v[1] ELSE None
Has(d, k) == d.t = "dict" /\ k \in DOMAIN d.v
\* the JSON document of a response, None when it has none
DocumentOf(r) == IF r.status = 200 /\ r.body.kind = "json" THEN r.body.doc ELSE None
\* reply.actions[0].callbacks[0].parameters of a response, None when absent
ParametersOf(r) ==
    Field(First(Field(First(Field(Field(DocumentOf(r), "reply"), "actions")),
                      "callbacks")), "parameters")
\* reply.error.description of a response, None when absent
DescriptionOf(r) == Field(Field(Field(DocumentOf(r), "reply"), "error"), "description")
HasIdAndNonce(r) ==
    Field(ParametersOf(r), "id") # None /\ Field(ParametersOf(r), "nonce") # None

ReturnsTrue == Ok(PyBool(TRUE))
ReturnsFalse == Ok(PyBool(FALSE))

\* ------------------------------------------------------------------- claims
\* C1: the request id is one less than the number of calls made through the
\* generic request path, and the n-th call's envelope carries id n-1, which is
\* also the number of envelopes sent before it: ids start at 0 and none is
\* skipped or repeated.
C1_RequestIdsAreSequential ==
    /\ request_id = calls - 1
    /\ [][/\ request_id' = calls' - 1
          /\ \A t \in Tasks : Sends(t) =>
                 /\ Len(wire'[t]) = 1
                 /\ wire'[t][1].id = calls
                 /\ wire'[t][1].id = posts
                 /\ posts' = posts + 1]_vars

\* C1's case: the third call's envelope is on the wire.
C1_Witness ==
    \E t \in Tasks : pc[t] = "post" /\ calls = 3 /\ wire[t][1].id = 2

\* C2: a login answered with status 200 and no protocol error returned True
\* exactly when the response holds a non-null id and a non-null nonce, which
\* are then the session id and the server nonce, and returned False in every
\* other case (id null, nonce null, a key absent, no parameters at all).
C2_LoginTrueIffIdAndNonce ==
    \A t \in Tasks :
      (Answered(t) /\ op[t] = "login" /\ DescriptionOf(response[t]) = PyStr(NO_ERR)) =>
        IF HasIdAndNonce(response[t])
        THEN /\ result[t] = ReturnsTrue
             /\ session_id = Field(ParametersOf(response[t]), "id")
             /\ server_nonce = Field(ParametersOf(response[t]), "nonce")
        ELSE result[t] = ReturnsFalse

\* C3: session_id and server_nonce change only in the step that ends a login
\* with True, and then both are set from that login's response; every other
\* step, a failed login's included, leaves both as they were.
C3_FailedLoginKeepsSession ==
    [][(<<session_id, server_nonce>>' # <<session_id, server_nonce>>) =>
          \E t \in Tasks :
              /\ pc[t] = "body" /\ pc'[t] = "idle" /\ op[t] = "login"
              /\ result'[t] = ReturnsTrue
              /\ session_id' = Field(ParametersOf(response'[t]), "id")
              /\ server_nonce' = Field(ParametersOf(response'[t]), "nonce")]_vars

\* C3's case: a login has failed while the session of an earlier, successful
\* login is still in place.
C3_Witness ==
    \E t \in Tasks :
        /\ Answered(t) /\ op[t] = "login" /\ result[t] # ReturnsTrue
        /\ session_id = PyInt(5) /\ server_nonce = PyStr("abc")

\* the failure classes the module declares (lines 21-30)
ProtocolFailures == {"UnauthorizedException", "BadRequestException", "UnknownException"}
\* task t's call ended in a failure delivered to the caller
Failed(t) == result[t].raised \notin {"no", "pending"}

\* C4: a call answered with a status other than 200 ended in a failure that
\* carries the raw body as its diagnostic, and did not return a result.
C4_Non200IsDiagnosedFailure ==
    \A t \in Tasks : (Answered(t) /\ response[t].status # 200) =>
        /\ Failed(t)
        /\ result[t].val = ResponseText(response[t].body)

\* C5: a call answered with status 200 and an error description other than
\* XMO_REQUEST_NO_ERR ended in one of the protocol failures (unauthorized, bad
\* request, unknown), and did not return the parameters, or True from login.
C5_ProtocolErrorIsFailure ==
    \A t \in Tasks :
        (/\ Answered(t)
         /\ DescriptionOf(response[t]) # None
         /\ DescriptionOf(response[t]) # PyStr(NO_ERR)) =>
        result[t].raised \in ProtocolFailures

\* the expected parts a 200 response's document lacks
LacksPart(r) ==
    LET reply == Field(DocumentOf(r), "reply")
        actions == Field(reply, "actions")
        callbacks == Field(First(actions), "callbacks")
    IN  /\ DocumentOf(r).t = "dict"
        /\ \/ ~Has(DocumentOf(r), "reply")
           \/ ~Has(reply, "error")
           \/ ~Has(reply, "actions")
           \/ actions = PyList(<<>>)
           \/ callbacks = PyList(<<>>)
           \/ ~Has(First(callbacks), "parameters")

\* C6: a call answered with a 200 document that lacks an expected key or
\* element finished without raising; where the parameters are missing a data
\* operation returned None and login returned False.
C6_MissingPartsAreNoValue ==
    \A t \in Tasks : (Answered(t) /\ LacksPart(response[t])) =>
        /\ result[t].raised = "no"
        /\ ParametersOf(response[t]) = None =>
               result[t] = (IF op[t] = "login" THEN ReturnsFalse ELSE Ok(None))

\* the digest the client was configured with
Digest(x) == generate_hash(authentication_method, x)

\* C7: every envelope carries the auth-key digest(digest(username ":"
\* server_nonce ":" password_hash) ":" id ":" cnonce ":JSON:/cgi/json-req")
\* of its own id and cnonce and of the server nonce at the time it is sent, and
\* never the key the client held before, which was computed for an earlier id.
C7_AuthKeyIsOfThisRequest ==
    [][\A t \in Tasks : Sends(t) =>
          LET e == wire'[t][1]
          IN  /\ e.auth_key =
                    Digest(Digest(username \o ":" \o server_nonce.v \o ":" \o password_hash)
                           \o ":" \o ToString(e.id) \o ":" \o ToString(e.cnonce)
                           \o ":JSON:/cgi/json-req")
              /\ PyStr(e.auth_key) # auth_key
              /\ PyStr(e.auth_key) = auth_key']_vars

\* C7's case: a second request is on the wire after a login that stored the
\* server's nonce, so an earlier key exists and the nonce is not the empty one.
C7_Witness ==
    \E t \in Tasks :
        /\ pc[t] = "post" /\ wire[t][1].id >= 1
        /\ server_nonce = PyStr("abc")
        /\ authentication_method = "MD5"

\* the server nonces a client can hold: the initial one and those of logins
ServerNonces == {"", "abc", "xyz"}
\* the key of envelope e is the one computed from e's own id and cnonce
KeyIsOfItsEnvelope(e) ==
    \E n \in ServerNonces :
        e.auth_key = Digest(Digest(username \o ":" \o n \o ":" \o password_hash)
                            \o ":" \o ToString(e.id) \o ":" \o ToString(e.cnonce)
                            \o ":JSON:/cgi/json-req")
\* an envelope whose id, cnonce and auth-key are not of one call, or two
\* envelopes with the same request id
BadEnvelope ==
    \/ \E t \in Tasks : wire[t] # <<>> /\ ~KeyIsOfItsEnvelope(wire[t][1])
    \/ \E t, u \in Tasks : /\ t # u /\ wire[t] # <<>> /\ wire[u] # <<>>
                           /\ wire[t][1].id = wire[u][1].id
TwoInFlight == \E t, u \in Tasks : t # u /\ InFlight(t) /\ InFlight(u)

Completed(t) == pc[t] = "idle" /\ result[t] # Pending
\* the response reports a transport or a protocol error
IsErrorResponse(r) ==
    \/ r.status # 200
    \/ DescriptionOf(r) # None /\ DescriptionOf(r) # PyStr(NO_ERR)

\* C9: a call that is over has issued exactly one HTTP request and has had its
\* response, and a response that reports an error made it a failed call.
C9_OneRequestOneOutcome ==
    \A t \in Tasks : Completed(t) =>
        /\ Len(wire[t]) = 1
        /\ response[t].status # 0
        /\ IsErrorResponse(response[t]) => Failed(t)

\* no login has succeeded: the session fields are those of construction
NoSession == session_id = PyInt(0) /\ server_nonce = PyStr("")

\* C10: a data operation called while no login has succeeded is sent with
\* session-id "0" and the auth-key of the empty server nonce, and when the
\* server rejects it as unauthorized the caller gets a protocol failure.
C10_DataOpBeforeLogin ==
    \A t \in Tasks : (op[t] \in DataOps /\ wire[t] # <<>> /\ NoSession) =>
        LET e == wire[t][1]
        IN  /\ e.session_id = "0"
            /\ e.auth_key =
                   Digest(Digest(username \o "::" \o password_hash)
                          \o ":" \o ToString(e.id) \o ":" \o ToString(e.cnonce)
                          \o ":JSON:/cgi/json-req")
            /\ (Answered(t) /\ DescriptionOf(response[t]) = PyStr("XMO_AUTHENTICATION_ERR"))
                   => result[t].raised \in ProtocolFailures


\* ------------------------------------------------ claims on parse_devices
\* a parse_devices call has been made
Parsed == parsed.ret # Pending
\* the records of the call that the claim says are included, in input order
Included ==
    SelectSeq(parsed.data.v,
              LAMBDA d : ~parsed.only_active \/ d.v["Active"] = PyBool(TRUE))
\* Device dev is the one made from raw record d
IsDeviceOf(dev, d) ==
    /\ dev.ip_address = d.v["IPAddress"]
    /\ dev.ipv4_addresses = d.v["IPv4Addresses"]
    /\ dev.active = d.v["Active"]

\* C11: parse_devices returns, in input order, one Device for each record
\* whose Active flag is true and none for the others when only_active is
\* true, and one Device for every record when only_active is false.
C11_FilterByActive ==
    Parsed =>
        /\ parsed.ret.raised = "no"
        /\ Len(parsed.ret.val) = Len(Included)
        /\ \A k \in 1..Len(Included) : IsDeviceOf(parsed.ret.val[k], Included[k])
        /\ parsed.only_active =>
               \A k \in 1..Len(parsed.ret.val) : parsed.ret.val[k].active = PyBool(TRUE)
        /\ ~parsed.only_active => Len(parsed.ret.val) = Len(parsed.data.v)

\* C11's case: with only_active true, an inactive record followed by an
\* active one gives the one Device of the active record.
C11_Witness ==
    /\ Parsed /\ parsed.only_active
    /\ Len(parsed.data.v) = 2
    /\ parsed.data.v[1].v["Active"] = PyBool(FALSE)
    /\ parsed.data.v[2].v["Active"] = PyBool(TRUE)
    /\ Len(parsed.ret.val) = 1
    /\ IsDeviceOf(parsed.ret.val[1], parsed.data.v[2])

\* a user-assigned hostname that is a non-empty string
IsNonEmpty(x) == x.t = "str" /\ x.v # ""

\* C12: the name of every Device is the record's UserHostName when that is
\* non-empty, whatever HostName is, and its HostName otherwise.
C12_NameFallback ==
    (Parsed /\ parsed.ret.raised = "no" /\ Len(parsed.ret.val) = Len(Included)) =>
        \A k \in 1..Len(Included) :
            parsed.ret.val[k].name =
                IF IsNonEmpty(Included[k].v["UserHostName"])
                THEN Included[k].v["UserHostName"]
                ELSE Included[k].v["HostName"]

\* C12's case: one record with both names and one with an empty user-assigned
\* name are included; the first is named by the user, the second by the host.
C12_Witness ==
    /\ Parsed /\ Len(parsed.ret.val) = 2
    /\ parsed.data.v[1].v["UserHostName"] = PyStr("phone")
    /\ parsed.data.v[1].v["HostName"] = PyStr("laptop")
    /\ parsed.data.v[2].v["UserHostName"] = PyStr("")
    /\ parsed.ret.val[1].name = PyStr("phone")
    /\ parsed.ret.val[2].name = PyStr("laptop")

\* the upper-case counterpart of a character, by position in the two alphabets
LowerLetters == "abcdef"
UpperLetters == "ABCDEF"
UpperCaseOf(c) ==
    IF \E i \in 1..Len(LowerLetters) : SubSeq(LowerLetters, i, i) = c
    THEN LET i == CHOOSE j \in 1..Len(LowerLetters) : SubSeq(LowerLetters, j, j) = c
         IN  SubSeq(UpperLetters, i, i)
    ELSE c
\* string u is the upper-case form of string s
IsUpperFormOf(u, s) ==
    /\ Len(u) = Len(s)
    /\ \A i \in 1..Len(s) : SubSeq(u, i, i) = UpperCaseOf(SubSeq(s, i, i))

\* C13: the mac_address of every Device is the upper-case form of the
\* record's PhysAddress; upper-casing it again changes nothing, and an address
\* that is already upper-case comes out as it went in.
C13_MacIsUpperCase ==
    (Parsed /\ parsed.ret.raised = "no" /\ Len(parsed.ret.val) = Len(Included)) =>
        \A k \in 1..Len(Included) :
            LET mac == parsed.ret.val[k].mac_address.v
                phys == Included[k].v["PhysAddress"].v
            IN  /\ IsUpperFormOf(mac, phys)
                /\ IsUpperFormOf(mac, mac)
                /\ upper(mac) = mac
                /\ IsUpperFormOf(phys, phys) => mac = phys

\* C13's case: a mixed-case and an upper-case address have been normalized.
C13_Witness ==
    /\ Parsed /\ Len(parsed.ret.val) = 2
    /\ parsed.data.v[1].v["PhysAddress"] = PyStr("aA:f0")
    /\ parsed.data.v[2].v["PhysAddress"] = PyStr("AA:B1")
    /\ parsed.ret.val[1].mac_address = PyStr("AA:F0")
    /\ parsed.ret.val[2].mac_address = PyStr("AA:B1")

KeyFrom(n, e) ==
    Digest(Digest(username \o ":" \o n \o ":" \o password_hash)
           \o ":" \o ToString(e.id) \o ":" \o ToString(e.cnonce)
           \o ":JSON:/cgi/json-req")
\* task t's login ends with True in this step
LoginSucceeds(t) ==
    /\ pc[t] = "body" /\ pc'[t] = "idle" /\ op[t] = "login"
    /\ result'[t] = ReturnsTrue

\* C17 as amended: the client starts with session id 0 and the empty server
\* nonce; a login that returns True sets them to the id and nonce of its
\* response and nothing else changes them; and every request, a login request
\* included, carries the string form of the session id and a key derived from
\* the server nonce that are in place when it is sent: "0" and the empty nonce
\* before the first successful login, the last successful login's afterwards.
C17_RequestsCarrySessionInPlace ==
    /\ NoSession
    /\ [][/\ \A t \in Tasks : Sends(t) =>
                 LET e == wire'[t][1]
                 IN  /\ e.session_id = Str(session_id)
                     /\ e.auth_key = KeyFrom(server_nonce.v, e)
                     /\ NoSession => e.session_id = "0" /\ e.auth_key = KeyFrom("", e)
                     /\ UNCHANGED <<session_id, server_nonce>>
          /\ \A t \in Tasks : LoginSucceeds(t) =>
                 /\ session_id' = Field(ParametersOf(response'[t]), "id")
                 /\ server_nonce' = Field(ParametersOf(response'[t]), "nonce")
          /\ (\A t \in Tasks : ~LoginSucceeds(t)) =>
                 UNCHANGED <<session_id, server_nonce>>]_vars

\* C17's case: after a login that returned True with (5, "abc"), a further
\* login request is on the wire, and it carries session-id "5" and a key
\* derived from "abc".
C17_Witness ==
    \E t \in Tasks :
        /\ pc[t] = "post" /\ op[t] = "login" /\ wire[t][1].id >= 1
        /\ session_id = PyInt(5) /\ server_nonce = PyStr("abc")
        /\ wire[t][1].session_id = "5"
        /\ wire[t][1].auth_key = KeyFrom("abc", wire[t][1])

\* C17 as stated, for the login request: every login request carries
\* session-id "0" and a key derived from the empty server nonce.
C17_LoginRequestCarriesNoSession ==
    \A t \in Tasks : (op[t] = "login" /\ pc[t] = "post") =>
        /\ wire[t][1].session_id = "0"
        /\ wire[t][1].auth_key = KeyFrom("", wire[t][1])

C15_PasswordHashIsImmutable ==
    /\ [](/\ \E password \in Passwords :
                 password_hash = generate_hash(authentication_method, password)
          /\ host \in Hosts /\ username \in Usernames
          /\ authentication_method \in MethodArgs)
    /\ [][/\ password_hash' = password_hash
          /\ host' = host /\ username' = username
          /\ authentication_method' = authentication_method]_vars

\* C15's case: a login has succeeded, a later call has failed and
\* parse_devices has run, and the password hash is still the digest of the
\* password.
C15_Witness ==
    /\ calls = 3 /\ parsed.ret # Pending
    /\ session_id = PyInt(5)
    /\ \E t \in Tasks : Answered(t) /\ response[t].status = 500
    /\ authentication_method = "SHA512"
    /\ \E password \in Passwords :
           password_hash = generate_hash("SHA512", password)

\* task t's data operation ends in this step
DataOpEnds(t) == pc[t] = "body" /\ pc'[t] = "idle" /\ op[t] \in DataOps

\* C18: a data operation, from its request to its return and whatever the
\* response, and a parse_devices call leave session_id and server_nonce as
\* they were; a step that changes them is the end of a login that returned
\* True.
C18_DataOpsKeepSession ==
    [][/\ \A t \in Tasks : (DataOpEnds(t) \/ (Sends(t) /\ op'[t] \in DataOps)) =>
              UNCHANGED <<session_id, server_nonce>>
       /\ parsed' # parsed => UNCHANGED <<session_id, server_nonce>>
       /\ ~UNCHANGED <<session_id, server_nonce>> =>
              \E t \in Tasks : LoginSucceeds(t)]_vars

\* C18's case: the session of a successful login is still in place after a
\* data operation that failed and a parse_devices call.
C18_Witness ==
    /\ session_id = PyInt(5) /\ server_nonce = PyStr("abc")
    /\ parsed.ret # Pending
    /\ \E t \in Tasks :
           /\ Answered(t) /\ op[t] \in DataOps
           /\ IsErrorResponse(response[t])

\* ------------------------------------------------ claims on concurrent logins
\* the (id, nonce) pair a response body carries
PairOf(body) ==
    LET r == [status |-> 200, body |-> body]
    IN  <<Field(ParametersOf(r), "id"), Field(ParametersOf(r), "nonce")>>
\* the pairs of the responses that carry both an id and a nonce
LoginPairs ==
    {PairOf(body) : body \in {b \in ConcBodies :
                                 HasIdAndNonce([status |-> 200, body |-> b])}}

\* C19: with login calls overlapping on one client as coroutines, session_id
\* and server_nonce are in every state both initial or both of one login
\* response, never the id of one response with the nonce of another; and each
\* login that returns True leaves the pair of its own response, so the pair of
\* the login processed last is the one that stays.
C19_ConcurrentLoginsKeepPairs ==
    /\ [](NoSession \/ <<session_id, server_nonce>> \in LoginPairs)
    /\ [][\A t \in Tasks : LoginSucceeds(t) =>
              <<session_id, server_nonce>>' = PairOf(response'[t].body)]_vars

\* C19's case: two logins were in flight together (both sent with session-id
\* "0"), both returned True on different responses, and the pair in place is
\* that of one of them.
C19_Witness ==
    \E t, u \in Tasks :
        /\ t # u /\ Completed(t) /\ Completed(u)
        /\ op[t] = "login" /\ op[u] = "login"
        /\ result[t] = ReturnsTrue /\ result[u] = ReturnsTrue
        /\ wire[t][1].session_id = "0" /\ wire[u][1].session_id = "0"
        /\ PairOf(response[t].body) = <<PyInt(5), PyStr("abc")>>
        /\ PairOf(response[u].body) = <<PyInt(6), PyStr("xyz")>>
        /\ <<session_id, server_nonce>> = <<PyInt(6), PyStr("xyz")>>

=============================================================================
